---- MODULE Spec2Model ----
(***************************************************************************)
(* Model of elmm_admm (src/elmm_admm.py) as written, and of the two        *)
(* reshape helpers conv2im / conv2mat.                                     *)
(*                                                                         *)
(* Spec is a call of elmm_admm from its first statement, with at least     *)
(* two endmembers and both iteration caps at least 1: the argument shape   *)
(* check, the creation of the arrays, the snapshot of the first outer      *)
(* iteration and the endmember update.  The creation of the arrays raises  *)
(* (line 120) when the number of bands is neither 1 nor P, and the         *)
(* endmember update raises on every argument (line 165), so such a call    *)
(* executes no statement after it; the rest of the loop body (lines        *)
(* 171-433) and the return (lines 448-454) are not steps of it and have    *)
(* no action here.                                                         *)
(*                                                                         *)
(* SpecReshape is conv2im and conv2mat called on test arrays.              *)
(*                                                                         *)
(* Arrays of the program part are followed through one representative      *)
(* pixel: one column of A, one magnitude for S and for psi_maps.           *)
(***************************************************************************)
EXTENDS Integers, Sequences, FiniteSets, TLC

(* ------------------------------ bounds -------------------------------- *)
\* number of endmembers, A_init.shape[0]; at least 2 here
P == 2
\* kwargs maxiter_anls / maxiter_admm (default 100), kept small here
maxiter_anls == 2
maxiter_admm == 4
\* largest image side used for the reshape round trips
MaxSide == 2
\* largest number of pixels N = m*n of a call
MaxPixels == 2

(* ------------------------- program constants -------------------------- *)
tau_incr == 2
RhoInit == 10
\* epsilon_s = epsilon_a = epsilon_psi = 10**(-3) = 1 / EpsDen
EpsDen == 1000

(* --------------------------- fixed-point units ------------------------ *)
\* the abundance 1.0 in fixed point
One == 2 * tau_incr
\* the penalty 1.0 in fixed point
RhoUnit == 2 ^ maxiter_admm

VARIABLES
    pc, err,
    N, L, lambda_a, lambda_psi, A_init, psis_init, S0,
    scalar_lambda_a, scalar_lambda_psi,
    A, S, psi_maps, S_old, A_old_anls, psi_maps_old,
    i, j, rs, ra, rpsi,
    rho, primal, dual, epsilon_primal, epsilon_dual,
    v1, d1, mu,
    steps,
    rdims, mat, im, mat0, im0

vars == <<pc, err, N, L, lambda_a, lambda_psi, A_init, psis_init, S0,
          scalar_lambda_a, scalar_lambda_psi,
          A, S, psi_maps, S_old, A_old_anls, psi_maps_old,
          i, j, rs, ra, rpsi,
          rho, primal, dual, epsilon_primal, epsilon_dual,
          v1, d1, mu,
          steps, rdims, mat, im, mat0, im0>>

inputVars == <<N, L, lambda_a, lambda_psi, A_init, psis_init, S0>>
reshapeVars == <<rdims, mat, im, mat0, im0>>
\* v1 stands for the split variables v1..v4, d1 for the multipliers
\* d1..d4 (lines 173-185)
splitVars == <<v1, d1, mu>>
admmVars == <<rho, primal, dual, epsilon_primal, epsilon_dual, splitVars>>
traceVars == <<rs, ra, rpsi>>
snapVars == <<S_old, A_old_anls, psi_maps_old>>
flagVars == <<scalar_lambda_a, scalar_lambda_psi>>

(* ------------------------------ values -------------------------------- *)
NoErr == [kind |-> "none", line |-> 0]
Raise(kind, line) == [kind |-> kind, line |-> line]

\* a matrix that has not been created yet / a magnitude not created yet
NoMatrix == << >>
NoValue == 0 - 1

ZeroCol == [p \in 1..P |-> 0]
\* a column with all its weight on the first endmember
UnitCol == [p \in 1..P |-> IF p = 1 THEN One ELSE 0]

\* numbers of bands L of data (m x n x L) and of S0 (L x P): one band, as
\* many as endmembers, or more
Bands == {1, P, P + 1}

\* shapes of the lambda arguments: 2-D arrays, as lines 88-103 index them
\* and as __main__ passes them
Shapes == { <<1, 1>>, <<1, P>>, <<P, 1>>, <<P, P>>, <<P + 1, P>>, <<P, P + 1>> }

\* a value num/den kept as the pair
Quot(num, den) == <<num, den>>
\* q < 10**(-3)
LtEps(q) == q[2] > 0 /\ q[1] * EpsDen < q[2]

(* --------------------------- shape check ------------------------------ *)
\* lines 88-95 / 97-103: "ok_scalar", "ok_vector" or the exception raised
ShapeCheck(shape) ==
    IF Len(shape) < 2 THEN "IndexError"
    ELSE IF shape[2] = 1 THEN "ok_scalar"
    ELSE IF shape[2] = P
         THEN IF shape[1] = 1 THEN "NameError" ELSE "ok_vector"
    ELSE "ValueError"

(* ------------------------------ Init ---------------------------------- *)
InitCommon ==
    /\ err = NoErr
    /\ scalar_lambda_a = FALSE
    /\ scalar_lambda_psi = FALSE
    /\ A = NoMatrix /\ S = NoValue /\ psi_maps = NoValue
    /\ S_old = NoValue /\ A_old_anls = NoMatrix /\ psi_maps_old = NoValue
    /\ i = 0 /\ j = 0
    /\ rs = << >> /\ ra = << >> /\ rpsi = << >>
    /\ rho = << >>
    /\ primal = 0 /\ dual = 0 /\ epsilon_primal = 0 /\ epsilon_dual = 0
    /\ v1 = NoMatrix /\ d1 = NoMatrix /\ mu = NoValue
    /\ steps = << >>

NoArray == [shape |-> << >>, data |-> << >>]

\* the reshape helpers are idle during a run of elmm_admm
InitNoReshape ==
    /\ rdims = <<0, 0, 0>>
    /\ mat = NoArray /\ im = NoArray /\ mat0 = NoArray /\ im0 = NoArray

\* every shape of the two weights, on all-zero data (the __main__ scenario
\* is the member with both shapes <<P, P>>)
InitConfig ==
    /\ lambda_a \in [shape : Shapes, nz : {FALSE}]
    /\ lambda_psi \in [shape : Shapes, nz : {FALSE}]
    /\ A_init = ZeroCol /\ psis_init = 0 /\ S0 = 0

\* all-zero or non-zero initial values
InitValues ==
    \E zero \in BOOLEAN :
       /\ A_init = IF zero THEN ZeroCol ELSE UnitCol
       /\ psis_init = IF zero THEN 0 ELSE 1000
       /\ S0 = IF zero THEN 0 ELSE 1000

\* scalar-shaped weights, zero or not, on all-zero or on non-zero initial
\* values
InitRun ==
    /\ lambda_a \in [shape : {<<1, 1>>}, nz : BOOLEAN]
    /\ lambda_psi \in [shape : {<<1, 1>>}, nz : BOOLEAN]
    /\ InitValues

Init ==
    /\ pc = "check_lambda_a"
    /\ InitCommon
    /\ InitNoReshape
    /\ N \in 1..MaxPixels
    /\ L \in Bands
    /\ (InitConfig \/ InitRun)

(* --------------------------- configuration ---------------------------- *)
\* lines 88-95
CheckLambdaA ==
    /\ pc = "check_lambda_a"
    /\ LET r == ShapeCheck(lambda_a.shape) IN
       IF r = "ok_scalar"
       THEN /\ scalar_lambda_a' = TRUE /\ pc' = "check_lambda_psi" /\ err' = err
       ELSE IF r = "ok_vector"
       THEN /\ scalar_lambda_a' = FALSE /\ pc' = "check_lambda_psi" /\ err' = err
       ELSE /\ scalar_lambda_a' = scalar_lambda_a
            /\ pc' = "error"
            /\ err' = Raise(r, IF r = "IndexError" THEN 88
                               ELSE IF r = "NameError" THEN 93 ELSE 95)
    /\ UNCHANGED <<inputVars, scalar_lambda_psi, A, S, psi_maps, snapVars,
                   i, j, traceVars, admmVars, steps, reshapeVars>>

\* lines 97-103
CheckLambdaPsi ==
    /\ pc = "check_lambda_psi"
    /\ LET r == ShapeCheck(lambda_psi.shape) IN
       IF r = "ok_scalar"
       THEN /\ scalar_lambda_psi' = TRUE /\ pc' = "setup" /\ err' = err
       ELSE IF r = "ok_vector"
       THEN /\ scalar_lambda_psi' = FALSE /\ pc' = "setup" /\ err' = err
       ELSE /\ scalar_lambda_psi' = scalar_lambda_psi
            /\ pc' = "error"
            /\ err' = Raise(r, IF r = "IndexError" THEN 97
                               ELSE IF r = "NameError" THEN 101 ELSE 103)
    /\ UNCHANGED <<inputVars, scalar_lambda_a, A, S, psi_maps, snapVars,
                   i, j, traceVars, admmVars, steps, reshapeVars>>

\* line 120: S0.transpose()*S0 multiplies a P x L by an L x P array
\* element by element, which broadcasts only for L = P or L = 1 (P > 1)
BandsConform(bands) == bands = P \/ bands = 1

\* lines 106-151: the traces, A, S, psi_maps are created (lines 112-118);
\* line 120 raises ValueError when the bands do not conform, and rho is
\* created (lines 147-148) only when they do
Setup ==
    /\ pc = "setup"
    /\ rs' = [k \in 1..maxiter_anls |-> Quot(0, 1)]
    /\ ra' = [k \in 1..maxiter_anls |-> Quot(0, 1)]
    /\ rpsi' = [k \in 1..maxiter_anls |-> Quot(0, 1)]
    /\ A' = A_init
    /\ S' = S0
    /\ psi_maps' = psis_init
    /\ IF BandsConform(L)
       THEN /\ rho' = [k \in 1..maxiter_admm |->
                         IF k = 1 THEN RhoInit * RhoUnit ELSE 0]
            /\ i' = 0
            /\ pc' = "for_anls"
            /\ err' = err
       ELSE /\ pc' = "error"
            /\ err' = Raise("ValueError", 120)
            /\ UNCHANGED <<rho, i>>
    /\ UNCHANGED <<inputVars, flagVars, snapVars, j,
                   primal, dual, epsilon_primal, epsilon_dual,
                   splitVars, steps, reshapeVars>>

(* ------------------------------ outer loop ---------------------------- *)
\* lines 155-158: next iteration, snapshot of S, psi_maps, A
Snapshot ==
    /\ pc = "for_anls"
    /\ i < maxiter_anls
    /\ S_old' = S
    /\ psi_maps_old' = psi_maps
    /\ A_old_anls' = A
    /\ steps' = <<"snapshot">>
    /\ pc' = "S_update"
    /\ UNCHANGED <<err, inputVars, flagVars, A, S, psi_maps,
                   i, j, traceVars, admmVars, reshapeVars>>

\* lines 162-166: per-pixel endmember update.  S is the np.tile of line
\* 117, of shape (1, L, P*N), so S[:,:,k] has shape (1, L); first_op and
\* second_op are P x P for L = P and for L = 1, and the store of line 165
\* raises ValueError for every P > 1.  S is left as it was
S_update ==
    /\ pc = "S_update"
    /\ pc' = "error"
    /\ err' = Raise("ValueError", 165)
    /\ UNCHANGED <<inputVars, flagVars, A, S, psi_maps, snapVars,
                   i, j, traceVars, admmVars, steps, reshapeVars>>

\* the call: with maxiter_anls >= 1 the loop is entered, and the only way
\* out of the first endmember update is the exception, so the statements
\* after line 166 and the return of lines 448-454 are not steps of it
Next ==
    \/ CheckLambdaA
    \/ CheckLambdaPsi
    \/ Setup
    \/ Snapshot
    \/ S_update

Spec == Init /\ [][Next]_vars

(* ------------------------------ reshapes ------------------------------ *)
\* an ndarray: its shape and its elements in C (row-major) order
RECURSIVE Prod(_)
Prod(s) == IF s = << >> THEN 1 ELSE Head(s) * Prod(Tail(s))

\* ndarray.transpose() of a 2-D array: element (y, x) moves to (x, y)
Transpose(a) ==
    LET r == a.shape[1]
        c == a.shape[2]
    IN [shape |-> <<c, r>>,
        data |-> [k \in 1..(r * c) |->
                    LET x == ((k - 1) \div r) + 1
                        y == ((k - 1) % r) + 1
                    IN a.data[(y - 1) * c + x]]]

\* ndarray.reshape(shape): same elements in C order under a new shape
Reshape(a, shape) == [shape |-> shape, data |-> a.data]

\* line 495
conv2im(a, m, n, pp) == Reshape(Transpose(a), <<m, n, pp>>)

\* line 499
conv2matNoTranspose(x, m, n, pp) == Reshape(x, <<pp, m * n>>)
conv2mat(x, m, n, pp) == Transpose(Reshape(x, <<m * n, pp>>))

\* test arrays of a given size: all zero, one non-zero entry, or every
\* entry labelled by its position
TestData(len) ==
    {[k \in 1..len |-> 0], [k \in 1..len |-> k]}
        \cup {[k \in 1..len |-> IF k = h THEN 1 ELSE 0] : h \in 1..len}

InitReshape ==
    /\ InitCommon
    /\ lambda_a = [shape |-> <<1, 1>>, nz |-> FALSE]
    /\ lambda_psi = [shape |-> <<1, 1>>, nz |-> FALSE]
    /\ A_init = ZeroCol /\ psis_init = 0 /\ S0 = 0
    /\ L = P
    /\ \E m \in 1..MaxSide, n \in 1..(MaxSide + 1), pp \in 1..P :
         /\ rdims = <<m, n, pp>>
         /\ N = m * n
         /\ \E d \in TestData(m * n * pp) :
              \/ /\ pc = "have_mat"
                 /\ mat = [shape |-> <<pp, m * n>>, data |-> d]
                 /\ mat0 = mat
                 /\ im = NoArray /\ im0 = NoArray
              \/ /\ pc = "have_im"
                 /\ im = [shape |-> <<m, n, pp>>, data |-> d]
                 /\ im0 = im
                 /\ mat = NoArray /\ mat0 = NoArray

programVars == <<err, inputVars, flagVars, A, S, psi_maps, snapVars,
                 i, j, traceVars, admmVars, steps>>

\* a call of conv2im, first or second leg of a round trip
Conv2im ==
    /\ pc \in {"have_mat", "im_as_mat"}
    /\ im' = conv2im(mat, rdims[1], rdims[2], rdims[3])
    /\ pc' = IF pc = "have_mat" THEN "mat_as_im" ELSE "im_round_trip"
    /\ UNCHANGED <<programVars, rdims, mat, mat0, im0>>

\* a call of conv2mat, first or second leg of a round trip
Conv2mat ==
    /\ pc \in {"have_im", "mat_as_im"}
    /\ mat' = conv2mat(im, rdims[1], rdims[2], rdims[3])
    /\ pc' = IF pc = "have_im" THEN "im_as_mat" ELSE "mat_round_trip"
    /\ UNCHANGED <<programVars, rdims, im, mat0, im0>>

NextReshape == Conv2im \/ Conv2mat

SpecReshape == InitReshape /\ [][NextReshape]_vars

(* ------------------------------ properties ---------------------------- *)
\* the outer loop has been entered: its first statements have run
LoopStarted == steps # << >>

\* the run has ended: by the return or by an exception
Ended == pc \in {"done", "error"}

\* the three tests of the outer stopping rule on the traces of the
\* iteration with Python index k - 1
AllTestsPass(k) == LtEps(rs[k]) /\ LtEps(ra[k]) /\ LtEps(rpsi[k])

\* C1: the outer loop stops at the first iteration whose three relative
\* changes are all below tolerance, otherwise runs maxiter_anls
\* iterations; a run that entered the loop ends converged or at the cap.
\* Stated on states: a run that entered the loop and has ended has
\* returned, after maxiter_anls iterations or after an iteration that
\* passed the three tests.
C1_OuterStop ==
    (LoopStarted /\ Ended) =>
        /\ pc = "done"
        /\ i = maxiter_anls \/ (i < maxiter_anls /\ AllTestsPass(i + 1))

FullOrder == <<"snapshot", "S_update", "A_update", "psi_update",
               "residuals", "objective", "termination_test">>

\* C2: every outer iteration, in either abundance branch, runs snapshot,
\* endmember update, abundance update, scaling-factor update, relative
\* changes, objective, convergence check, in this order.  Stated on
\* states: the steps an iteration has completed are the first ones of
\* this order, and when the iteration is over (the next one is due, or
\* the run has ended) they are all seven.
C2_StepOrder ==
    LoopStarted =>
        /\ Len(steps) <= Len(FullOrder)
        /\ steps = SubSeq(FullOrder, 1, Len(steps))
        /\ ((pc = "for_anls" /\ i > 0) \/ Ended) => steps = FullOrder

\* a scalar, or a vector with exactly P entries
Acceptable(shape) == shape \in { <<1, 1>>, <<1, P>>, <<P, 1>> }

NothingCreated == A = NoMatrix /\ S = NoValue /\ psi_maps = NoValue

CheckedA == pc # "check_lambda_a"
CheckedPsi ==
    /\ pc \notin {"check_lambda_a", "check_lambda_psi"}
    /\ ~(pc = "error" /\ err.line <= 95)

\* C4: a lambda_a or lambda_psi that is neither a scalar nor a vector of
\* P entries ends the call in the configuration error (ValueError) with
\* none of S, A, psi_maps created; for an accepted shape the check
\* completes without raising.
C4_ShapeCheck ==
    /\ CheckedA =>
         IF Acceptable(lambda_a.shape)
         THEN ~(pc = "error" /\ err.line <= 95)
         ELSE pc = "error" /\ err = Raise("ValueError", 95) /\ NothingCreated
    /\ CheckedPsi =>
         IF Acceptable(lambda_psi.shape)
         THEN ~(pc = "error" /\ err.line \in 97..103)
         ELSE pc = "error" /\ err = Raise("ValueError", 103) /\ NothingCreated

\* the __main__ scenario: L = P = arb, square weights of side arb,
\* everything zero
MainScenario ==
    /\ L = P
    /\ lambda_a = [shape |-> <<P, P>>, nz |-> FALSE]
    /\ lambda_psi = [shape |-> <<P, P>>, nz |-> FALSE]
    /\ A_init = ZeroCol /\ psis_init = 0 /\ S0 = 0

\* C5: on the all-zero __main__ scenario the call does not raise, ends
\* after at most maxiter_anls iterations, and returns all-zero A,
\* psi_maps and S.
C5_ZeroScenario ==
    MainScenario =>
        /\ pc # "error"
        /\ i <= maxiter_anls
        /\ pc = "done" => (A = ZeroCol /\ psi_maps = 0 /\ S = 0)

\* C9: conv2mat after conv2im gives back the P x N matrix, and conv2im
\* after conv2mat gives back the m x n x P array, shapes included.
C9_RoundTrip ==
    /\ pc = "mat_as_im" => im.shape = rdims
    /\ pc = "im_as_mat" => mat.shape = <<rdims[3], rdims[1] * rdims[2]>>
    /\ pc = "mat_round_trip" => mat = mat0
    /\ pc = "im_round_trip" => im = im0

\* C9, its case: a round trip of a non-zero matrix over an image with
\* several rows, columns and endmembers
C9_Witness ==
    /\ pc = "mat_round_trip"
    /\ rdims[1] > 1 /\ rdims[2] > rdims[1] /\ rdims[3] > 1
    /\ \E k \in 1..Len(mat0.data) : mat0.data[k] # 0

====
